---- MODULE Spec2Model ----
(***************************************************************************)
(* Kai FLIP fluid simulator: flipsim (src/src/sim/flip.cpp) and the        *)
(* viewer (src/src/viewer/viewer.cpp).                                     *)
(*                                                                         *)
(* Representation.  Floats are fixed point.  A position p in [0,1]^3 is    *)
(* held as the integer vector p*maxd*Cell, in thousandths of a lattice     *)
(* step; the lattice (SubCell steps per grid cell) is where the scene puts *)
(* its particles and its surface points.  A particle velocity is held in   *)
(* thousandths (milli-units).                                              *)
(* Grid face velocities are held in thousandths, a pressure divided by the *)
(* cell width h, a level-set value in millionths.                          *)
(*                                                                         *)
(* Spec        the simulator's life: construction, init() and step() in    *)
(*             any order the caller likes, step() as its sequence of       *)
(*             phases, and destruction.  The MAC grid's velocity field is  *)
(*             not tracked there: what the particles see of it (the        *)
(*             velocities interpolateVelocity returns) is an input of each *)
(*             step.                                                       *)
(* SpecGrid    the operations of step() on mgrid and mgrid_previous, face  *)
(*             by face, from the grid splat and markCellTypes leave.       *)
(* SpecPlanes  one grid phase as its parallel_for loops run it, the planes  *)
(*             i interleaved.                                              *)
(* SpecViewer  viewer::launch() with the threads of its parallel region;   *)
(*             FairViewer adds that those threads keep being scheduled.    *)
(*                                                                         *)
(* The scene, the particle grid, the transfer operators, the resampler,    *)
(* enforceBoundaryVelocity and the pressure solve are not part of the two  *)
(* source files; they are modelled from their description in the           *)
(* specification.                                                          *)
(***************************************************************************)
EXTENDS Integers, Sequences, FiniteSets, TLC

(***************************************************************************)
(* Bounds of the model.                                                    *)
(***************************************************************************)
BoxN == 4
SubCell == 2
MaxFrame == 2
MaxParticles == 3

(***************************************************************************)
(* Program constants.                                                      *)
(***************************************************************************)
GravityMilli == 9800
StepsizeMilli == 5
PicFlipPercent == 95
PenaltyForce == 10
CalibSide == 10

FLUID == "FLUID"
SOLID == "SOLID"
AIR == "AIR"
Types == {FLUID, SOLID, AIR}

VARIABLES
    dimensions,      \* flipsim::dimensions (X,Y,Z)
    density,         \* flipsim::density
    frame,           \* flipsim::frame
    particles,       \* flipsim::particles, in vector order
    pgrid,           \* particlegrid buckets: the cell each particle was sorted into
    cellA,           \* mgrid.A, the cell types
    scene,           \* the scene collaborator handed to the constructor
    gridview,        \* what mgrid and mgrid_previous hold at the particles' positions
    pc,              \* the last statement of flipsim the caller has completed
                     \* ("deleted" once the destructor has run)
    trace,           \* phases of the current step() in the order they ran
    hist,            \* history: calls of step(), those since the last init() (-1
                     \* before any), particle count at a step's start, ...
    grid,            \* mgrid and mgrid_previous face by face, for the grid operations
    view             \* the viewer and its two threads

simvars == <<dimensions, density, frame, particles, pgrid, cellA, scene, gridview, pc, trace, hist>>
vars == <<dimensions, density, frame, particles, pgrid, cellA, scene, gridview, pc, trace, hist,
          grid, view>>

(***************************************************************************)
(* Vectors and arithmetic.                                                 *)
(***************************************************************************)
Min(a, b) == IF a < b THEN a ELSE b
Max(a, b) == IF a > b THEN a ELSE b
Abs(a) == IF a < 0 THEN -a ELSE a
Zero3 == <<0, 0, 0>>
VAdd(a, b) == <<a[1] + b[1], a[2] + b[2], a[3] + b[3]>>
VSub(a, b) == <<a[1] - b[1], a[2] - b[2], a[3] - b[3]>>
VScale(s, a) == <<s * a[1], s * a[2], s * a[3]>>
Dot(a, b) == a[1] * b[1] + a[2] * b[2] + a[3] * b[3]
\* a/b rounded to the nearest integer (b > 0)
RoundDiv(a, b) == (2 * a + b) \div (2 * b)
VRoundDiv(a, b) == <<RoundDiv(a[1], b), RoundDiv(a[2], b), RoundDiv(a[3], b)>>

RECURSIVE SqrtSearch(_, _, _)
SqrtSearch(n, lo, hi) ==
    IF lo >= hi THEN lo
    ELSE LET mid == (lo + hi + 1) \div 2
         IN  IF mid * mid <= n THEN SqrtSearch(n, mid, hi)
                               ELSE SqrtSearch(n, lo, mid - 1)
\* floor of the square root
ISqrt(n) == SqrtSearch(n, 0, Min(n, 46340))

\* glm::length of a difference of positions, in thousandths of a lattice step
LengthMilli(d) == ISqrt(Dot(d, d))
\* a float converted to an integer type: a / b truncated toward zero (b > 0)
Trunc(a, b) == IF a >= 0 THEN a \div b ELSE -((-a) \div b)

(***************************************************************************)
(* Grid geometry.                                                          *)
(***************************************************************************)
MaxD(dims) == Max(Max(dims[1], dims[3]), dims[2])
\* the width of a grid cell in position units
Cell == SubCell * 1000
Cells(dims) == (0 .. dims[1] - 1) \X (0 .. dims[2] - 1) \X (0 .. dims[3] - 1)
\* a grid built with a zero or negative extent has no cell
HasCells(dims) == \A a \in 1 .. 3 : dims[a] > 0
IsShell(c, dims) ==
    \E a \in 1 .. 3 : c[a] = 0 \/ c[a] = dims[a] - 1
\* What converting a negative float to unsigned int may give, the language
\* leaving it undefined: the value modulo 2^32, or 0
Conversions == {"modular", "saturate"}
\* (unsigned int) v.  An unsigned int of 2^31 or more is held as the integer
\* with the same 32 bits: -1 is 4294967295
ToUnsigned(v, conv) == IF v >= 0 \/ conv = "modular" THEN v ELSE 0
\* advectParticles, lines 186-188 and 215-217: unsigned int x = (unsigned int)
\* dimensions.x, then unsigned int i = glm::min(x-1.0f, p.x*maxd); x-1.0f is
\* computed in floats, where an x of 2^31 or more exceeds every coordinate
CellIndex(q, n, conv) ==
    LET x == ToUnsigned(n, conv)
        m == IF x < 0 THEN Trunc(q, Cell) ELSE Min(x - 1, Trunc(q, Cell))
    IN  ToUnsigned(m, conv)
\* grid read at a continuous coordinate: truncated, out-of-range reads clamped
ClampIndex(q, n) == Max(0, Min(n - 1, q \div Cell))
ClampCell(p, dims) ==
    <<ClampIndex(p[1], dims[1]), ClampIndex(p[2], dims[2]), ClampIndex(p[3], dims[3])>>

(***************************************************************************)
(* Particles.                                                              *)
(***************************************************************************)
\* a particle as the scene or the resampler creates it; id and origin are
\* history fields (the pointer's identity and who allocated it)
NewParticle(type, p, n, origin) ==
    [id |-> 0, type |-> type, p |-> p, u |-> Zero3, t |-> Zero3, n |-> n,
     invalid |-> FALSE, temp |-> FALSE, origin |-> origin]
Indices(ps) == 1 .. Len(ps)
\* ps with ids next, next+1, ... given to its elements
WithIds(ps, next) == [i \in Indices(ps) |-> [ps[i] EXCEPT !.id = next + i - 1]]
\* the lattice point in the middle of cell c
CellCentre(c) ==
    VScale(1000, <<c[1] * SubCell + SubCell \div 2, c[2] * SubCell + SubCell \div 2,
                   c[3] * SubCell + SubCell \div 2>>)

(***************************************************************************)
(* The scene collaborator (sceneCore::scene).  Its code is not part of the *)
(* sources; a scene is the set of cells its solid level set covers, the    *)
(* particles it emits for frame 0 and the points its later emissions come  *)
(* from.  Both scenes are closed boxes: the shell cells are solid.         *)
(***************************************************************************)
SceneBox ==
    LET mid == SubCell + SubCell \div 2
        at(l) == VScale(1000, l)
    IN  [name |-> "box", solid |-> {},
         emit0 |-> << NewParticle(SOLID, at(<<SubCell - 1, SubCell + 1, mid>>), Zero3, "scene"),
                      NewParticle(FLUID, at(<<SubCell, SubCell, mid>>), Zero3, "scene"),
                      NewParticle(FLUID, at(<<SubCell - 1, mid, mid>>), Zero3, "scene") >>,
         source |-> << >>]
SceneBlock ==
    [name |-> "block", solid |-> {<<2, 1, 1>>},
     emit0 |-> << NewParticle(FLUID, CellCentre(<<1, 1, 1>>), Zero3, "scene"),
                  NewParticle(FLUID, CellCentre(<<2, 1, 1>>), Zero3, "scene") >>,
     source |-> << CellCentre(<<2, 1, 1>>) >>]
Scenes == {SceneBox, SceneBlock}

\* the cells inside the scene's solid level set, the forced shell included
SolidCells(sc, dims) == {c \in Cells(dims) : IsShell(c, dims) \/ c \in sc.solid}

\* scene::generateParticles: what the scene may append for this frame
GenerateChoices(sc, f, count) ==
    IF f = 0 THEN {sc.emit0}
    ELSE {<< >>} \cup
         (IF count < MaxParticles /\ sc.source # << >>
          THEN {<< NewParticle(FLUID, sc.source[1], Zero3, "scene") >>} ELSE {})

\* the cells whose closure holds lattice point q, along one axis
TouchIdx(q, n) ==
    {i \in {q \div SubCell - 1, q \div SubCell} :
        i >= 0 /\ i < n /\ i * SubCell <= q /\ q <= (i + 1) * SubCell}
TouchCells(q, dims) == TouchIdx(q[1], dims[1]) \X TouchIdx(q[2], dims[2]) \X TouchIdx(q[3], dims[3])
Lattice(dims) ==
    (0 .. dims[1] * SubCell) \X (0 .. dims[2] * SubCell) \X (0 .. dims[3] * SubCell)
\* the lattice points on the solid surface: between a solid and a non-solid cell
SurfacePoints(sc, dims) ==
    LET solid == SolidCells(sc, dims)
    IN  {q \in Lattice(dims) :
            /\ \E c \in TouchCells(q, dims) : c \in solid
            /\ \E c \in TouchCells(q, dims) : c \notin solid}
SurfaceBox == {VScale(1000, q) : q \in SurfacePoints(SceneBox, <<BoxN, BoxN, BoxN>>)}
SurfaceBlock == {VScale(1000, q) : q \in SurfacePoints(SceneBlock, <<BoxN, BoxN, BoxN>>)}
SurfaceOf(sc) == IF sc.name = "box" THEN SurfaceBox ELSE SurfaceBlock
Dist2(a, b) == Dot(VSub(a, b), VSub(a, b))
\* scene::projectPointsToSolidSurface for one point: a nearest point of the
\* solid surface, as fine as the scene's lattice
ProjectChoices(sc, q) ==
    LET S == SurfaceOf(sc)
        D == {Dist2(s, q) : s \in S}
        best == CHOOSE d \in D : \A e \in D : d <= e
    IN  {s \in S : Dist2(s, q) = best}

(***************************************************************************)
(* particlegrid and the particle/grid transfer (their code is not part of  *)
(* the sources: modelled from the specification).                          *)
(***************************************************************************)
\* particlegrid::sort: the bucket (cell, clamped to the domain) of every
\* particle; a domain without cells has no bucket to hold one
Sort(ps, dims) ==
    IF HasCells(dims) THEN {<<ps[i].id, ClampCell(ps[i].p, dims)>> : i \in Indices(ps)}
    ELSE {}
\* particlegrid::getCellNeighbors(c, vec3(1)): the indices, in vector order, of
\* the particles whose bucket is within one cell of c
CellNeighbors(ps, buckets, c) ==
    LET near(i) == \E b \in buckets :
                      /\ b[1] = ps[i].id
                      /\ \A a \in 1 .. 3 : Abs(b[2][a] - c[a]) <= 1
        idx == {i \in Indices(ps) : near(i)}
    IN  idx
\* particlegrid::markCellTypes
MarkCellTypes(ps, buckets, sc, dims) ==
    [c \in Cells(dims) |->
        IF c \in SolidCells(sc, dims) THEN SOLID
        ELSE IF \E i \in Indices(ps) : ps[i].type = FLUID /\ <<ps[i].id, c>> \in buckets
             THEN FLUID ELSE AIR]
\* grid::getCell at a cell index, out-of-range reads clamped; a grid without
\* cells has none to clamp to, and the read yields out, whatever lies there
GetCell(A, c, dims, out) ==
    IF HasCells(dims)
    THEN A[<<Max(0, Min(dims[1] - 1, c[1])), Max(0, Min(dims[2] - 1, c[2])),
             Max(0, Min(dims[3] - 1, c[3]))>>]
    ELSE out
\* splatMACGridToParticles (gather): every FLUID particle's u becomes the grid
\* velocity sampled at its position; samples[i] is interpolateVelocity(p_i, grid)
SplatMACGridToParticles(ps, samples) ==
    [i \in Indices(ps) |->
        IF ps[i].type = FLUID THEN [ps[i] EXCEPT !.u = samples[i]] ELSE ps[i]]

(***************************************************************************)
(* flipsim (src/src/sim/flip.cpp).                                         *)
(***************************************************************************)
\* flipsim::flipsim: stores its arguments, checks none of them
Flipsim(maxres, s, dens) ==
    [dimensions |-> maxres, density |-> dens, scene |-> s, frame |-> 0,
     particles |-> << >>]

\* init(): the 10x10x10 calibration particles, at (i,j,k)+0.5 times density/maxd
CalibrationParticles(dens) ==
    [n \in 1 .. CalibSide * CalibSide * CalibSide |->
        LET m == n - 1
            i == m \div (CalibSide * CalibSide)
            j == (m \div CalibSide) % CalibSide
            k == m % CalibSide
        IN  NewParticle(FLUID,
                <<((2 * i + 1) * dens * Cell) \div 2,
                  ((2 * j + 1) * dens * Cell) \div 2,
                  ((2 * k + 1) * dens * Cell) \div 2>>, Zero3, "calibration")]
\* a variant of init() that forgets to clear the calibration particles
KeepCalibration(ps) == ps
\* init(): after max_density is read off them, the calibration particles are
\* deleted and the vector cleared (lines 66-71)
AfterCalibration(ps) == << >>
\* init(): the cell the purge loop reads for a particle (lines 87-89: unsigned
\* int i = glm::min(maxd-1, p.x*maxd), maxd on every axis)
InitCell(p, dims, conv) ==
    LET m == MaxD(dims)
        index(q) == ToUnsigned(Min(m - 1, Trunc(q, Cell)), conv)
    IN  <<index(p[1]), index(p[2]), index(p[3])>>
\* init(): remove fluid particles that are stuck in walls (lines 81-96)
InitPurge(ps, A, dims, out, conv) ==
    LET keep(q) == q.type = SOLID
                   \/ GetCell(A, InitCell(q.p, dims, conv), dims, out) # SOLID
    IN  SelectSeq(ps, keep)

\* a variant of line 668 that skips the particles that are not FLUID
ApplyExternalForcesToFluid(ps) ==
    [i \in Indices(ps) |->
        IF ps[i].type = FLUID
        THEN [ps[i] EXCEPT !.u = VAdd(@, <<0, -((GravityMilli * StepsizeMilli) \div 1000), 0>>)]
        ELSE ps[i]]
\* applyExternalForces, lines 662-672: u += gravity*stepsize for every particle
ApplyExternalForces(ps) ==
    [i \in Indices(ps) |->
        [ps[i] EXCEPT !.u = VAdd(@, <<0, -((GravityMilli * StepsizeMilli) \div 1000), 0>>)]]

\* a variant of line 298 with the two weights exchanged
BlendSwapped(u, t) ==
    VRoundDiv(VAdd(VScale(PicFlipPercent, u), VScale(100 - PicFlipPercent, t)), 100)
\* solvePicFlip, line 298: (1-picflipratio)*u + picflipratio*t
Blend(u, t) ==
    VRoundDiv(VAdd(VScale(100 - PicFlipPercent, u), VScale(PicFlipPercent, t)), 100)
\* solvePicFlip: sPrev and sCur are the velocities mgrid_previous and mgrid hold
\* at the particles
SolvePicFlip(ps, sPrev, sCur) ==
    LET saved == [i \in Indices(ps) |-> [ps[i] EXCEPT !.t = ps[i].u]]
        delta == SplatMACGridToParticles(saved, sPrev)
        flip == [i \in Indices(ps) |-> [delta[i] EXCEPT !.t = VAdd(delta[i].u, delta[i].t)]]
        pic == SplatMACGridToParticles(flip, sCur)
    IN  [i \in Indices(ps) |-> [pic[i] EXCEPT !.u = Blend(pic[i].u, pic[i].t)]]

\* advectParticles, line 197: stepsize*velocity in position units
Displacement(v, dims) ==
    VRoundDiv(VScale(StepsizeMilli * MaxD(dims) * SubCell, v), 1000)
\* advectParticles, line 210: clamp into [1/maxd, 1-1/maxd] on every axis
ClampToWalls(p, dims) ==
    LET lo == Cell
        hi == (MaxD(dims) - 1) * Cell
    IN  <<Max(lo, Min(hi, p[1])), Max(lo, Min(hi, p[2])), Max(lo, Min(hi, p[3]))>>
\* advectParticles, lines 221-231: one solid neighbour np acting on particle q
\* (re = 1.5*density/maxd; a normal n is held with 1 for the unit length, the
\* normalised d in thousandths)
PushOut(q, np, dens) ==
    LET reMilli == 1500 * dens * SubCell
        d == VSub(q.p, np.p)
        distMilli == LengthMilli(d)
        normal == VRoundDiv(VScale(1000, d), distMilli)
    IN  IF np.type # SOLID \/ distMilli >= reMilli THEN q
        ELSE IF np.n # Zero3
             THEN [q EXCEPT !.p = VAdd(@, VScale(reMilli - distMilli, np.n)),
                            !.u = VSub(@, VScale(Dot(q.u, np.n), np.n))]
        ELSE IF distMilli # 0
             THEN [q EXCEPT !.p = VAdd(@, VRoundDiv(VScale(reMilli - distMilli, d), distMilli)),
                            !.u = VSub(@, VRoundDiv(VScale(RoundDiv(Dot(q.u, normal), 1000),
                                                           normal), 1000))]
        ELSE q
RECURSIVE PushOutAll(_, _, _, _)
PushOutAll(q, ps, idx, dens) ==
    IF idx = {} THEN q
    ELSE LET i == CHOOSE j \in idx : \A l \in idx : j <= l
         IN  PushOutAll(PushOut(q, ps[i], dens), ps, idx \ {i}, dens)
\* advectParticles, lines 205-237: the wall constraints of one particle
Constrain(q, ps, buckets, dims, dens, conv) ==
    IF q.type # FLUID THEN q
    ELSE LET c == [q EXCEPT !.p = ClampToWalls(@, dims)]
             cell == <<CellIndex(c.p[1], dims[1], conv), CellIndex(c.p[2], dims[2], conv),
                       CellIndex(c.p[3], dims[3], conv)>>
         IN  PushOutAll(c, ps, CellNeighbors(ps, buckets, cell), dens)
\* advectParticles, lines 192-201: update positions
Advected(ps, vel, dims) ==
    [i \in Indices(ps) |->
        IF ps[i].type = FLUID
        THEN [ps[i] EXCEPT !.p = VAdd(@, Displacement(vel[i], dims))] ELSE ps[i]]
AdvectParticles(ps, vel, dims, dens, conv) ==
    LET moved == Advected(ps, vel, dims)
        buckets == Sort(moved, dims)
    IN  [i \in Indices(ps) |-> Constrain(moved[i], moved, buckets, dims, dens, conv)]

\* a variant of the marking loop that only tests the bounds
IsInvalidBoundsOnly(q, A, dims, out) ==
    \/ q.p[1] > dims[1] * Cell \/ q.p[2] > dims[2] * Cell \/ q.p[3] > dims[3] * Cell
    \/ q.p[1] < 0 \/ q.p[2] < 0 \/ q.p[3] < 0
\* step(), lines 126-143: mark particles as inside walls or out of bounds
IsInvalid(q, A, dims, out) ==
    \/ q.p[1] > dims[1] * Cell \/ q.p[2] > dims[2] * Cell \/ q.p[3] > dims[3] * Cell
    \/ q.p[1] < 0 \/ q.p[2] < 0 \/ q.p[3] < 0
    \/ GetCell(A, ClampCell(q.p, dims), dims, out) = SOLID
MarkInvalid(ps, A, dims, out) ==
    [i \in Indices(ps) |-> [ps[i] EXCEPT !.invalid = IsInvalid(ps[i], A, dims, out)]]
\* a variant of the removal loop that also drops the invalid particles
RemoveTempAndInvalid(ps) ==
    LET keep(q) == ~q.temp /\ ~q.invalid
    IN  SelectSeq(ps, keep)
\* step(), lines 145-154: remove the particles that are only valid in this frame
RemoveTemp(ps) ==
    LET keep(q) == ~q.temp
    IN  SelectSeq(ps, keep)
\* a variant of lines 171-178 that moves a stuck particle and keeps its velocity
PenaliseKeepVelocity(q, proj) ==
    LET vdir == VSub(proj, q.p)
    IN  IF 10000 * LengthMilli(vdir) > Cell THEN [q EXCEPT !.p = proj] ELSE q
\* step(), lines 171-178: a stuck particle and its projected position.  vdir is
\* in position units, the test of line 172 is length(vdir) > 0.0001 grid cells,
\* and u = vdir*penaltyForce with vdir in grid cells
Penalise(q, proj) ==
    LET vdir == VSub(proj, q.p)
    IN  IF 10000 * LengthMilli(vdir) > Cell
        THEN [q EXCEPT !.p = proj,
                       !.u = VRoundDiv(VScale(PenaltyForce * 1000, vdir), Cell)]
        ELSE q
\* step(), lines 156-178: every outcome of pushing the stuck particles out,
\* one for each choice of nearest surface points the scene may return
RECURSIVE ProjectStuck(_, _, _)
ProjectStuck(ps, i, sc) ==
    IF i > Len(ps) THEN {ps}
    ELSE IF ps[i].invalid /\ ps[i].type = FLUID
         THEN UNION {ProjectStuck([ps EXCEPT ![i] = Penalise(ps[i], proj)], i + 1, sc) :
                        proj \in ProjectChoices(sc, ps[i].p)}
         ELSE ProjectStuck(ps, i + 1, sc)

\* resampleParticles (particleresampler.inl, not part of the sources): it may
\* leave the particles alone, insert one, or flag one as temporary
ResampleChoices(ps, next) ==
    {ps}
    \cup (IF Len(ps) < MaxParticles
          THEN {Append(ps, [NewParticle(FLUID, CellCentre(<<1, 1, 1>>), Zero3, "resampler")
                               EXCEPT !.id = next])}
          ELSE {})
    \cup {[ps EXCEPT ![i].temp = TRUE] :
             i \in {j \in Indices(ps) : /\ ps[j].type = FLUID
                                        /\ \A l \in 1 .. j - 1 : ps[l].type # FLUID}}

(***************************************************************************)
(* step(): the order of its statements (lines 99-183).                     *)
(***************************************************************************)
\* a variant of step() that extrapolates before it projects
StepOrderExtrapolateFirst ==
    << "frame", "buildLevelSets", "generateParticles", "sort", "computeDensity",
       "applyExternalForces", "splatParticlesToMACGrid", "markCellTypes",
       "storePreviousGrid", "enforceBoundaryVelocity_1", "extrapolateVelocity",
       "enforceBoundaryVelocity_2", "project", "subtractPreviousGrid",
       "solvePicFlip", "advectParticles", "resampleParticles", "markInvalid",
       "removeTemp", "projectStuck", "exportParticles" >>
StepOrder ==
    << "frame", "buildLevelSets", "generateParticles", "sort", "computeDensity",
       "applyExternalForces", "splatParticlesToMACGrid", "markCellTypes",
       "storePreviousGrid", "enforceBoundaryVelocity_1", "project",
       "enforceBoundaryVelocity_2", "extrapolateVelocity", "subtractPreviousGrid",
       "solvePicFlip", "advectParticles", "resampleParticles", "markInvalid",
       "removeTemp", "projectStuck", "exportParticles" >>
PositionOf(label) == CHOOSE k \in 1 .. Len(StepOrder) : StepOrder[k] = label
\* the values of pc between two calls: the constructor, init() or step() has
\* returned and the caller holds the simulator
Between == {"constructed", "initialized", "idle"}
\* the statement that runs after the one pc names
PhaseAfter(label) ==
    IF label \in Between THEN StepOrder[1]
    ELSE IF PositionOf(label) < Len(StepOrder) THEN StepOrder[PositionOf(label) + 1]
    ELSE "idle"
\* the function a statement calls
CallOf(label) ==
    IF label \in {"enforceBoundaryVelocity_1", "enforceBoundaryVelocity_2"}
    THEN "enforceBoundaryVelocity" ELSE label
\* statement `label` of step() runs now
Phase(label) ==
    /\ pc \notin Between \cup {"new", "deleted"}
    /\ PhaseAfter(pc) = label
    /\ pc' = label
    /\ trace' = Append(trace, CallOf(label))
    /\ UNCHANGED <<grid, view>>

(***************************************************************************)
(* What the caller may pass and what the grid may hold.                    *)
(***************************************************************************)
\* the constructor's arguments <<maxres, density, scene>>: a cubic grid
\* with a density of 1 or 2 in either scene, and in the box scene a density of
\* 0 or -1, an extent of 0 and an extent of -1
CtorArgs ==
    ({<<BoxN, BoxN, BoxN>>} \X {1, 2} \X Scenes)
    \cup ({<<BoxN, BoxN, BoxN>>} \X {0, -1} \X {SceneBox})
    \cup ({<<0, BoxN, BoxN>>} \X {0, 1} \X {SceneBox})
    \cup ({<<BoxN, -1, BoxN>>} \X {1} \X {SceneBox})
ValidConfig ==
    /\ \A a \in 1 .. 3 : dimensions[a] > 0
    /\ density > 0
\* the velocity that moves a particle one lattice step per step()
UnitSpeed(dims) ==
    (1000000 + StepsizeMilli * MaxD(dims) * SubCell - 1) \div (StepsizeMilli * MaxD(dims) * SubCell)
Directions == {Zero3, <<SubCell, 0, 0>>, <<0, -1, 0>>}
SampleVelocities(dims) == {VScale(UnitSpeed(dims), d) : d \in Directions}
DeltaVelocities(dims) == {<<0, -UnitSpeed(dims), 0>>}

(***************************************************************************)
(* Actions.                                                                *)
(***************************************************************************)
NoGrid == [op |-> "none"]
NoView == [pc |-> "none"]
Init ==
    /\ grid = NoGrid
    /\ view = NoView
    /\ pc = "new"
    /\ dimensions = Zero3
    /\ density = 0
    /\ frame = 0
    /\ particles = << >>
    /\ pgrid = {}
    /\ cellA = << >>
    /\ scene = SceneBox
    /\ gridview = [pic |-> << >>, delta |-> Zero3]
    /\ trace = << >>
    /\ hist = [steps |-> 0, count0 |-> 0, emitted |-> FALSE, resampled |-> FALSE,
               save |-> FALSE, nextid |-> 1, emit0 |-> << >>, relocated |-> {},
               pre |-> << >>, before |-> << >>, since |-> -1]

\* new flipsim(maxres, scene, density, type, verbose): no argument is refused
Construct ==
    /\ pc = "new"
    /\ \E args \in CtorArgs :
          LET sim == Flipsim(args[1], args[3], args[2])
          IN  /\ dimensions' = sim.dimensions
              /\ density' = sim.density
              /\ scene' = sim.scene
              /\ frame' = sim.frame
              /\ particles' = sim.particles
    /\ pc' = "constructed"
    /\ UNCHANGED <<pgrid, cellA, gridview, trace, hist, grid, view>>

\* flipsim::~flipsim(), lines 33-41: the particle grid, every particle and
\* mgrid are freed
Destroy ==
    /\ pc \in Between
    /\ pc' = "deleted"
    /\ particles' = << >>
    /\ pgrid' = {}
    /\ cellA' = << >>
    /\ UNCHANGED <<dimensions, density, frame, scene, gridview, trace, hist, grid, view>>

\* flipsim::init().  It tests nothing: it runs on a simulator of any extents
\* and density, before or after step(), and again after itself.  Every
\* particle the vector held is deleted with the calibration particles (lines
\* 66-71), so the identities start over; frame is left alone
SimInit ==
    /\ pc \in Between
    /\ \E emitted \in GenerateChoices(scene, 0, 0), out \in Types, conv \in Conversions :
          LET calib == particles \o CalibrationParticles(density)
              fresh == AfterCalibration(calib)
              ps == fresh \o WithIds(emitted, Len(fresh) + 1)
              buckets == Sort(ps, dimensions)
              A == MarkCellTypes(ps, buckets, scene, dimensions)
          IN  /\ particles' = InitPurge(ps, A, dimensions, out, conv)
              /\ pgrid' = buckets
              /\ cellA' = A
              /\ hist' = [hist EXCEPT !.nextid = Len(ps) + 1,
                                      !.emit0 = WithIds(emitted, Len(fresh) + 1),
                                      !.count0 = 0, !.emitted = FALSE,
                                      !.resampled = FALSE, !.relocated = {},
                                      !.pre = << >>, !.before = << >>, !.since = 0]
    /\ pc' = "initialized"
    /\ trace' = << >>
    /\ UNCHANGED <<dimensions, density, frame, scene, gridview, grid, view>>

\* step(saveVDB, saveOBJ, savePARTIO), line 100, on a simulator init() has run
\* on or not; hist.save tells whether this call was passed any export flag
StepFrame ==
    /\ pc \in Between
    /\ frame < MaxFrame
    /\ PhaseAfter(pc) = "frame"
    /\ pc' = "frame"
    /\ trace' = << CallOf("frame") >>
    /\ frame' = frame + 1
    /\ \E save \in BOOLEAN :
          hist' = [hist EXCEPT !.steps = @ + 1, !.count0 = Len(particles),
                               !.save = save,
                               !.since = IF @ < 0 THEN @ ELSE @ + 1,
                               !.emitted = FALSE, !.resampled = FALSE, !.relocated = {},
                               !.pre = << >>, !.before = << >>]
    /\ UNCHANGED <<dimensions, density, particles, pgrid, cellA, scene, gridview, grid, view>>

\* line 103; the level sets live in the scene
StepBuildLevelSets ==
    /\ Phase("buildLevelSets")
    /\ UNCHANGED <<dimensions, density, frame, particles, pgrid, cellA, scene, gridview, hist>>

\* line 104
StepGenerateParticles ==
    /\ Phase("generateParticles")
    /\ \E emitted \in GenerateChoices(scene, frame, Len(particles)) :
          /\ particles' = particles \o WithIds(emitted, hist.nextid)
          /\ hist' = [hist EXCEPT !.nextid = @ + Len(emitted), !.emitted = emitted # << >>]
    /\ UNCHANGED <<dimensions, density, frame, pgrid, cellA, scene, gridview>>

\* line 106
StepSort ==
    /\ Phase("sort")
    /\ pgrid' = Sort(particles, dimensions)
    /\ UNCHANGED <<dimensions, density, frame, particles, cellA, scene, gridview, hist>>

\* line 107; the particles' density field is not tracked
StepComputeDensity ==
    /\ Phase("computeDensity")
    /\ UNCHANGED <<dimensions, density, frame, particles, pgrid, cellA, scene, gridview, hist>>

\* line 108
StepApplyExternalForces ==
    /\ Phase("applyExternalForces")
    /\ particles' = ApplyExternalForces(particles)
    /\ UNCHANGED <<dimensions, density, frame, pgrid, cellA, scene, gridview, hist>>

\* line 109; writes mgrid's faces
StepSplat ==
    /\ Phase("splatParticlesToMACGrid")
    /\ UNCHANGED <<dimensions, density, frame, particles, pgrid, cellA, scene, gridview, hist>>

\* line 110
StepMarkCellTypes ==
    /\ Phase("markCellTypes")
    /\ cellA' = MarkCellTypes(particles, pgrid, scene, dimensions)
    /\ UNCHANGED <<dimensions, density, frame, particles, pgrid, scene, gridview, hist>>

\* line 111; writes mgrid_previous' faces
StepStorePreviousGrid ==
    /\ Phase("storePreviousGrid")
    /\ UNCHANGED <<dimensions, density, frame, particles, pgrid, cellA, scene, gridview, hist>>

\* line 112
StepEnforceBoundary1 ==
    /\ Phase("enforceBoundaryVelocity_1")
    /\ UNCHANGED <<dimensions, density, frame, particles, pgrid, cellA, scene, gridview, hist>>

\* line 113
StepProject ==
    /\ Phase("project")
    /\ UNCHANGED <<dimensions, density, frame, particles, pgrid, cellA, scene, gridview, hist>>

\* line 114
StepEnforceBoundary2 ==
    /\ Phase("enforceBoundaryVelocity_2")
    /\ UNCHANGED <<dimensions, density, frame, particles, pgrid, cellA, scene, gridview, hist>>

\* line 115: mgrid's faces are final; gridview.pic is what they are at the
\* particles (a uniform field)
StepExtrapolateVelocity ==
    /\ Phase("extrapolateVelocity")
    /\ \E v \in SampleVelocities(dimensions) :
          gridview' = [gridview EXCEPT !.pic = [i \in Indices(particles) |-> v]]
    /\ UNCHANGED <<dimensions, density, frame, particles, pgrid, cellA, scene, hist>>

\* line 116: mgrid_previous' faces are final; gridview.delta is what they are at
\* the particles (one value for all of them)
StepSubtractPreviousGrid ==
    /\ Phase("subtractPreviousGrid")
    /\ \E delta \in DeltaVelocities(dimensions) :
          gridview' = [gridview EXCEPT !.delta = delta]
    /\ UNCHANGED <<dimensions, density, frame, particles, pgrid, cellA, scene, hist>>

\* line 117
StepSolvePicFlip ==
    /\ Phase("solvePicFlip")
    /\ particles' = SolvePicFlip(particles,
                                 [i \in Indices(particles) |-> gridview.delta],
                                 gridview.pic)
    /\ hist' = [hist EXCEPT !.pre = [i \in Indices(particles) |-> particles[i].u]]
    /\ UNCHANGED <<dimensions, density, frame, pgrid, cellA, scene, gridview>>

\* line 118
StepAdvectParticles ==
    /\ Phase("advectParticles")
    /\ \E conv \in Conversions :
          particles' = AdvectParticles(particles, gridview.pic, dimensions, density, conv)
    /\ pgrid' = Sort(Advected(particles, gridview.pic, dimensions), dimensions)
    /\ UNCHANGED <<dimensions, density, frame, cellA, scene, gridview, hist>>

\* line 122
StepResampleParticles ==
    /\ Phase("resampleParticles")
    /\ \E ps \in ResampleChoices(particles, hist.nextid) :
          /\ particles' = ps
          /\ hist' = [hist EXCEPT !.nextid = @ + 1, !.resampled = ps # particles]
    /\ UNCHANGED <<dimensions, density, frame, pgrid, cellA, scene, gridview>>

\* lines 126-143
StepMarkInvalid ==
    /\ Phase("markInvalid")
    /\ \E out \in Types : particles' = MarkInvalid(particles, cellA, dimensions, out)
    /\ UNCHANGED <<dimensions, density, frame, pgrid, cellA, scene, gridview, hist>>

\* lines 145-154
StepRemoveTemp ==
    /\ Phase("removeTemp")
    /\ particles' = RemoveTemp(particles)
    /\ UNCHANGED <<dimensions, density, frame, pgrid, cellA, scene, gridview, hist>>

\* lines 156-178
StepProjectStuck ==
    /\ Phase("projectStuck")
    /\ \E ps \in ProjectStuck(particles, 1, scene) :
          /\ particles' = ps
          /\ hist' = [hist EXCEPT !.relocated =
                         {ps[i].id : i \in {j \in Indices(ps) : ps[j].p # particles[j].p}},
                                  !.before = particles]
    /\ UNCHANGED <<dimensions, density, frame, pgrid, cellA, scene, gridview>>

\* lines 180-182, and the return to the caller
StepExport ==
    /\ pc = "projectStuck"
    /\ PhaseAfter(pc) = "exportParticles"
    /\ pc' = "idle"
    /\ trace' = IF hist.save THEN Append(trace, CallOf("exportParticles")) ELSE trace
    /\ UNCHANGED <<dimensions, density, frame, particles, pgrid, cellA, scene, gridview, hist,
                   grid, view>>

Next ==
    \/ Construct
    \/ Destroy
    \/ SimInit
    \/ StepFrame
    \/ StepBuildLevelSets
    \/ StepGenerateParticles
    \/ StepSort
    \/ StepComputeDensity
    \/ StepApplyExternalForces
    \/ StepSplat
    \/ StepMarkCellTypes
    \/ StepStorePreviousGrid
    \/ StepEnforceBoundary1
    \/ StepProject
    \/ StepEnforceBoundary2
    \/ StepExtrapolateVelocity
    \/ StepSubtractPreviousGrid
    \/ StepSolvePicFlip
    \/ StepAdvectParticles
    \/ StepResampleParticles
    \/ StepMarkInvalid
    \/ StepRemoveTemp
    \/ StepProjectStuck
    \/ StepExport

Spec == Init /\ [][Next]_vars

(***************************************************************************)
(* Properties.                                                             *)
(***************************************************************************)
IsPrefix(a, b) == Len(a) <= Len(b) /\ \A i \in 1 .. Len(a) : a[i] = b[i]
InStep == pc \notin Between \cup {"new", "deleted"}
AfterStep == pc = "idle"
AfterInit == pc = "initialized"
\* the cell that holds a position inside the domain
ContainingCell(p) == ClampCell(p, dimensions)
InUnitBox(p) == \A a \in 1 .. 3 : 0 <= p[a] /\ p[a] <= MaxD(dimensions) * Cell

\* C1: every call of step() runs its phases in the order frame+1,
\* buildLevelSets, generateParticles, sort, computeDensity, applyExternalForces,
\* splat, markCellTypes, storePreviousGrid, enforceBoundaryVelocity, project,
\* enforceBoundaryVelocity, extrapolateVelocity, subtractPreviousGrid,
\* solvePicFlip, advectParticles, resampleParticles, mark invalid, remove temp,
\* project stuck, and exports last and only when an export flag is set; after n
\* calls of step() following init(), frame = n (frame counts the calls of
\* step() on the simulator; init() leaves it alone).
ClaimedOrder ==
    << "frame", "buildLevelSets", "generateParticles", "sort", "computeDensity",
       "applyExternalForces", "splatParticlesToMACGrid", "markCellTypes",
       "storePreviousGrid", "enforceBoundaryVelocity", "project",
       "enforceBoundaryVelocity", "extrapolateVelocity", "subtractPreviousGrid",
       "solvePicFlip", "advectParticles", "resampleParticles", "markInvalid",
       "removeTemp", "projectStuck" >>
C1_StepOrder ==
    /\ InStep => /\ IsPrefix(trace, ClaimedOrder)
                 /\ trace # << >>
                 /\ frame = hist.steps
    /\ AfterStep =>
          /\ trace = (IF hist.save THEN Append(ClaimedOrder, "exportParticles")
                      ELSE ClaimedOrder)
          /\ frame = hist.steps
    /\ pc \in Between \cup {"deleted"} => frame = hist.steps
    /\ hist.since = hist.steps => frame = hist.since
C1_Witness ==
    /\ AfterStep /\ hist.since = MaxFrame /\ frame = MaxFrame
    /\ hist.steps = MaxFrame /\ hist.save /\ Len(trace) = Len(ClaimedOrder) + 1

\* C2: after solvePicFlip() every particle, of any kind, has
\* u = (1-r)*u_pic + r*(pre_u + delta_u) with r = 0.95, where pre_u is its
\* velocity on entry, delta_u the grid velocity delta at its position and u_pic
\* the post-projection grid velocity at its position.
PicFlipOf(i) ==
    \A a \in 1 .. 3 :
        Abs(100 * particles[i].u[a]
            - ((100 - PicFlipPercent) * gridview.pic[i][a]
               + PicFlipPercent * (hist.pre[i][a] + gridview.delta[a]))) <= 50
C2_BlendAnyKind ==
    pc = "solvePicFlip" => \A i \in Indices(particles) : PicFlipOf(i)
\* C2 as amended: the same, for every FLUID particle.
C2_BlendFluid ==
    pc = "solvePicFlip" =>
        \A i \in Indices(particles) : particles[i].type = FLUID => PicFlipOf(i)
C2_Witness ==
    /\ pc = "solvePicFlip"
    /\ \E i \in Indices(particles) :
          /\ particles[i].type = FLUID
          /\ hist.pre[i] # Zero3
          /\ gridview.delta # Zero3
          /\ gridview.pic[i] # VAdd(hist.pre[i], gridview.delta)
          /\ particles[i].u # gridview.pic[i]

\* C3: across a step() in which the scene emits nothing and the resampler neither
\* inserts a particle nor flags one as temporary, the number of particles does
\* not change: none is removed for being out of bounds, in a solid cell or
\* invalid.
C3_CountKept ==
    ((InStep \/ AfterStep) /\ ~hist.emitted /\ ~hist.resampled) =>
        Len(particles) = hist.count0
C3_Witness ==
    /\ AfterStep /\ ~hist.emitted /\ ~hist.resampled
    /\ Len(particles) = hist.count0
    /\ \E i \in Indices(particles) :
          particles[i].invalid /\ particles[i].type = FLUID
          /\ particles[i].id \in hist.relocated

\* C4: at the end of every step(), every remaining particle whose invalid flag is
\* false lies in a cell that is not SOLID in mgrid.A, although the stuck
\* particles were moved after the flags were computed.  Stated for a grid that
\* has cells.
C4_ValidNotInSolid ==
    (AfterStep /\ HasCells(dimensions)) =>
        \A i \in Indices(particles) :
            ~particles[i].invalid => cellA[ContainingCell(particles[i].p)] # SOLID
C4_Witness ==
    /\ AfterStep /\ HasCells(dimensions)
    /\ \E i \in Indices(particles) : particles[i].id \in hist.relocated
    /\ \E i \in Indices(particles) : ~particles[i].invalid /\ particles[i].type = FLUID

\* C5: in a closed box no FLUID particle has a coordinate below 0 or above 1
\* after any number of step() calls; the push-out in advectParticles and the
\* relocation of stuck particles never leave a FLUID particle outside [0,1]^3.
C5_NoEscape ==
    (/\ HasCells(dimensions)
     /\ AfterStep \/ (InStep /\ PositionOf(pc) >= PositionOf("advectParticles"))) =>
        \A i \in Indices(particles) :
            particles[i].type = FLUID => InUnitBox(particles[i].p)

\* C7: constructing a simulator with a zero or negative extent or a non-positive
\* density fails: no simulator is produced from such arguments.
C7_ConstructionValidates == pc # "new" => ValidConfig

\* C8: after init() the particle list holds none of the calibration particles,
\* every SOLID particle the scene emitted for frame 0, no non-SOLID particle
\* whose cell is SOLID in mgrid.A, and every emitted non-SOLID particle whose
\* cell is not SOLID, in emission order.  The first two parts are stated
\* for every init(); the two that speak of cells, for a grid that has cells.
C8_InitParticles ==
    AfterInit =>
        LET free(q) == q.type # SOLID /\ cellA[ContainingCell(q.p)] # SOLID
            fluid(q) == q.type # SOLID
        IN  /\ \A i \in Indices(particles) : particles[i].origin # "calibration"
            /\ \A k \in Indices(hist.emit0) :
                  hist.emit0[k].type = SOLID =>
                      \E i \in Indices(particles) : particles[i] = hist.emit0[k]
            /\ HasCells(dimensions) =>
                  /\ \A i \in Indices(particles) :
                        particles[i].type # SOLID =>
                            cellA[ContainingCell(particles[i].p)] # SOLID
                  /\ SelectSeq(particles, fluid) = SelectSeq(hist.emit0, free)
C8_Witness ==
    /\ AfterInit /\ HasCells(dimensions)
    /\ Len(particles) < Len(hist.emit0)
    /\ \E i \in Indices(particles) : particles[i].type = SOLID
    /\ \E i \in Indices(particles) : particles[i].type = FLUID

\* C11: a FLUID particle that is inside a SOLID block at the end of a step
\* (marked invalid) and whose projected solid-surface point differs from its
\* position is, after step(), at the projected point, outside the block, and
\* the component of its velocity u along the surface normal (the direction from
\* its old position to the projected point) is zero.
AfterProjectStuck == (pc = "projectStuck" \/ AfterStep) /\ hist.before # << >>
\* particle i was a FLUID particle in a SOLID cell of the grid, marked invalid,
\* when the stuck particles were collected
InBlock(i) ==
    /\ hist.before[i].type = FLUID /\ hist.before[i].invalid
    /\ HasCells(dimensions) /\ InUnitBox(hist.before[i].p)
    /\ cellA[ContainingCell(hist.before[i].p)] = SOLID
\* the distance from where particle i was to the nearest point of the solid
\* surface, in position units
ToSurface(i) ==
    LET proj == CHOOSE s \in ProjectChoices(scene, hist.before[i].p) : TRUE
    IN  LengthMilli(VSub(proj, hist.before[i].p))
C11_NormalZero ==
    AfterProjectStuck =>
        \A i \in Indices(particles) :
            (InBlock(i) /\ ToSurface(i) > 0) =>
                /\ particles[i].p \in ProjectChoices(scene, hist.before[i].p)
                /\ cellA[ContainingCell(particles[i].p)] # SOLID
                /\ Dot(particles[i].u, VSub(particles[i].p, hist.before[i].p)) = 0
\* C11 as amended: a FLUID particle that is inside a SOLID block at the end of a
\* step (marked invalid) and whose projected solid-surface point is more than
\* 1e-4 grid cells from its position is, after step(), at the projected point,
\* a point of the solid surface, and its velocity u is 10 times the vector from
\* its old position to the projected point (in grid cells), whatever it was
\* before: the component of u along that direction is positive, not zero.
C11_PenaltyVelocity ==
    AfterProjectStuck =>
        \A i \in Indices(particles) :
            (InBlock(i) /\ 10000 * ToSurface(i) > Cell) =>
                LET d == VSub(particles[i].p, hist.before[i].p)
                IN  /\ particles[i].p \in ProjectChoices(scene, hist.before[i].p)
                    /\ particles[i].p \in SurfaceOf(scene)
                    /\ \A a \in 1 .. 3 :
                          2 * Abs(Cell * particles[i].u[a] - PenaltyForce * 1000 * d[a])
                             <= Cell
                    /\ Dot(particles[i].u, d) > 0
C11_Witness ==
    /\ AfterStep
    /\ \E i \in Indices(particles) :
          /\ InBlock(i) /\ 10000 * ToSurface(i) > Cell
          /\ particles[i].p # hist.before[i].p
          /\ hist.before[i].u # Zero3
          /\ hist.before[i].u # particles[i].u

\* C13: applyExternalForces adds g*dt, g = (0,-9.8,0), to the velocity of every
\* FLUID particle and leaves the velocity of every particle that is not FLUID,
\* and every particle's position, unchanged.
GravityStep == <<0, -((GravityMilli * StepsizeMilli) \div 1000), 0>>
RunsApplyExternalForces == pc # "applyExternalForces" /\ pc' = "applyExternalForces"
C13_GravityFluidOnly ==
    [][RunsApplyExternalForces =>
          /\ Len(particles') = Len(particles)
          /\ \A i \in Indices(particles) :
                /\ particles'[i].p = particles[i].p
                /\ particles'[i].u = IF particles[i].type = FLUID
                                     THEN VAdd(particles[i].u, GravityStep)
                                     ELSE particles[i].u]_vars
\* C13 as amended: applyExternalForces adds g*dt to the velocity of every
\* particle, FLUID or SOLID, and changes nothing else of any particle.
C13_GravityEveryParticle ==
    [][RunsApplyExternalForces =>
          /\ Len(particles') = Len(particles)
          /\ \A i \in Indices(particles) :
                particles'[i] = [particles[i] EXCEPT !.u = VAdd(@, GravityStep)]]_vars
C13_Witness ==
    /\ pc = "applyExternalForces"
    /\ \E i \in Indices(particles) : particles[i].type = SOLID /\ particles[i].u[2] < 0
    /\ \E i \in Indices(particles) : particles[i].type = FLUID /\ particles[i].u[2] < 0

(***************************************************************************)
(* The MAC grid face by face: the operations of flipsim on mgrid and       *)
(* mgrid_previous.  Face velocities are in units of 0.001; a pressure is   *)
(* kept divided by the cell width h, a level-set value in units of 1e-6.   *)
(***************************************************************************)
GridDims == <<BoxN + 1, 3, 3>>
Axes == 1 .. 3
Unit(n) == [a \in Axes |-> IF a = n THEN 1 ELSE 0]
\* the faces of component n: one more than the cells along n
Faces(n, dims) ==
    {<<i, j, k>> : i \in 0 .. dims[1] - 1 + Unit(n)[1],
                   j \in 0 .. dims[2] - 1 + Unit(n)[2],
                   k \in 0 .. dims[3] - 1 + Unit(n)[3]}
\* the cell behind face f of component n (i-1, j-1 or k-1)
Back(n, f) == VSub(f, Unit(n))
RECURSIVE SumOver(_, _)
SumOver(S, val) ==
    IF S = {} THEN 0
    ELSE LET q == CHOOSE r \in S : TRUE
         IN  val[q] + SumOver(S \ {q}, val)
\* a / b rounded, for either sign of b
DivR(a, b) == IF b < 0 THEN RoundDiv(-a, -b) ELSE RoundDiv(a, b)

\* extrapolateVelocity, lines 451-452, 466-467, 481-482: the face touches a
\* FLUID cell
Mark(A, dims, n, f) ==
    \/ f[n] > 0 /\ A[Back(n, f)] = FLUID
    \/ f[n] < dims[n] /\ A[f] = FLUID
\* extrapolateVelocity, lines 453-454, 468-469, 483-484: SOLID (or nothing) on
\* both sides
WallMark(A, dims, n, f) ==
    /\ f[n] <= 0 \/ A[Back(n, f)] = SOLID
    /\ f[n] >= dims[n] \/ A[f] = SOLID
\* extrapolateVelocity, lines 504-508: the six neighbours q of face f that lie
\* inside component n
InRange(n, q, dims) ==
    \A a \in Axes : q[a] >= 0 /\ q[a] < dims[a] + Unit(n)[a]
NeighbourFaces(n, f, dims) ==
    {q \in {VAdd(f, VScale(sgn, Unit(a))) : a \in Axes, sgn \in {-1, 1}} :
        InRange(n, q, dims)}
\* a variant of line 509 that sums every neighbour in range
ReadsAnyNeighbour(A, dims, n, q) == TRUE
\* extrapolateVelocity, line 509: a neighbour counts when it is marked
ReadsNeighbour(A, dims, n, q) == Mark(A, dims, n, q)
\* extrapolateVelocity, lines 502-532: the value written to face f, if any
ExtrapolatedValue(A, dims, u, n, f) ==
    LET qs == {q \in NeighbourFaces(n, f, dims) : ReadsNeighbour(A, dims, n, q)}
        wsum == Cardinality(qs)
    IN  IF wsum > 0 THEN RoundDiv(SumOver(qs, u[n]), wsum) ELSE u[n][f]
\* a variant of line 501 that writes every face
ExtrapolatesEveryFace(A, dims, n, f) == TRUE
\* extrapolateVelocity, line 501: the faces the sweep writes
Extrapolates(A, dims, n, f) == ~Mark(A, dims, n, f) /\ WallMark(A, dims, n, f)
\* extrapolateVelocity, lines 492-539
ExtrapolateVelocity(A, dims, u) ==
    [n \in Axes |-> [f \in Faces(n, dims) |->
        IF Extrapolates(A, dims, n, f) THEN ExtrapolatedValue(A, dims, u, n, f)
        ELSE u[n][f]]]

\* storePreviousGrid, lines 305-344
StorePreviousGrid(u) == u
\* a variant of lines 355-356, 369-370, 383-384 with the operands exchanged
SubtractPreviousGridSwapped(u, prev, dims) ==
    [n \in Axes |-> [f \in Faces(n, dims) |-> prev[n][f] - u[n][f]]]
\* subtractPreviousGrid, lines 346-391: mgrid_previous becomes mgrid - mgrid_previous
SubtractPreviousGrid(u, prev, dims) ==
    [n \in Axes |-> [f \in Faces(n, dims) |-> u[n][f] - prev[n][f]]]

\* project, lines 406-412: the sum of the six face differences of cell c
FaceSum(u, c) ==
    u[1][VAdd(c, Unit(1))] - u[1][c] + u[2][VAdd(c, Unit(2))] - u[2][c]
    + u[3][VAdd(c, Unit(3))] - u[3][c]
\* project, lines 400-418: divergence = sum / h, with h = 1/maxd
Divergence(u, dims) == [c \in Cells(dims) |-> FaceSum(u, c) * MaxD(dims)]

\* subcell = true, the constructor's setting (line 26)
Subcell == TRUE
\* the floors of lines 570 and 577, 1.0e-3f and 1.0e-6f, in units of 1e-6
FloorFront == 1000
FloorBack == 1
\* subtractPressureGradient, lines 562-572: pf of face f of component n
PressureFront(L, P, n, f) ==
    LET b == Back(n, f)
    IN  IF Subcell /\ L[f] * L[b] < 0 /\ ~(L[f] < 0)
        THEN DivR(L[f] * P[b], Min(FloorFront, L[b]))
        ELSE P[f]
\* subtractPressureGradient, lines 563-579: pb of face f of component n
PressureBack(L, P, n, f) ==
    LET b == Back(n, f)
    IN  IF Subcell /\ L[f] * L[b] < 0 /\ ~(L[b] < 0)
        THEN DivR(L[b] * P[f], Min(FloorBack, L[f]))
        ELSE P[b]
\* (pf - pb) / h of one face, the pressure being kept divided by h
Gradient(L, P, n, f) == PressureFront(L, P, n, f) - PressureBack(L, P, n, f)
\* subtractPressureGradient, lines 548-660: every face with a cell on both sides
SubtractPressureGradient(L, P, u, dims) ==
    [n \in Axes |-> [f \in Faces(n, dims) |->
        IF f[n] > 0 /\ f[n] < dims[n] THEN u[n][f] - Gradient(L, P, n, f)
        ELSE u[n][f]]]

\* enforceBoundaryVelocity: a face with a SOLID cell on either side, or on the
\* boundary of the domain, carries no flow
TouchesSolid(A, dims, n, f) ==
    \/ f[n] <= 0 \/ f[n] >= dims[n]
    \/ A[Back(n, f)] = SOLID \/ A[f] = SOLID
EnforceBoundaryVelocity(A, dims, u) ==
    [n \in Axes |-> [f \in Faces(n, dims) |->
        IF TouchesSolid(A, dims, n, f) THEN 0 ELSE u[n][f]]]

\* the pressure solve by its contract: P is zero outside the FLUID cells and,
\* with the gradient taken off every face of a FLUID cell that leads neither
\* into a SOLID cell (Neumann there) nor out of the grid, the cell's face sum
\* is zero.  Where no pressure within MaxPressure does that the solve has not
\* converged: it returns all the same, and leaves the velocity as it is (P
\* zero).  The solve stops at a maximum of iterations: a system of more
\* unknowns than the grid has cells inside its shell is taken to stop there,
\* not converged
FluidCells(A, dims) == {c \in Cells(dims) : A[c] = FLUID}
InteriorCells(dims) == {c \in Cells(dims) : ~IsShell(c, dims)}
CorrectedSum(A, L, P, u, c) ==
    LET hi(n) == VAdd(c, Unit(n))
        lo(n) == Back(n, c)
        closed(d) == d \notin DOMAIN A \/ A[d] = SOLID
        gHi(n) == IF closed(hi(n)) THEN 0 ELSE Gradient(L, P, n, hi(n))
        gLo(n) == IF closed(lo(n)) THEN 0 ELSE Gradient(L, P, n, c)
    IN  FaceSum(u, c) - (gHi(1) - gLo(1)) - (gHi(2) - gLo(2)) - (gHi(3) - gLo(3))
MaxPressure == 3
SolveChoices(A, L, u, dims) ==
    LET fluid == FluidCells(A, dims)
        cand == {[c \in Cells(dims) |-> IF c \in fluid THEN Q[c] ELSE 0] :
                    Q \in [fluid -> -MaxPressure .. MaxPressure]}
        solved == {P \in cand : \A c \in fluid : CorrectedSum(A, L, P, u, c) = 0}
        zero == [c \in Cells(dims) |-> 0]
    IN  IF Cardinality(fluid) > Cardinality(InteriorCells(dims)) THEN {zero}
        ELSE IF solved # {} THEN solved ELSE {zero}

\* the grids an operation may be handed
ShellSolid(A, dims) == \A c \in Cells(dims) : IsShell(c, dims) => A[c] = SOLID
GridTypes(dims) ==
    {[c \in Cells(dims) |-> IF IsShell(c, dims) THEN shell ELSE inner[c]] :
        shell \in Types, inner \in [InteriorCells(dims) -> Types]}
\* the liquid level set buildSDF leaves: negative in FLUID cells (0.002 or
\* 0.0005 below the surface), zero or positive in AIR cells, either sign in
\* SOLID cells; the grids whose shell is not SOLID, which markCellTypes never
\* leaves, come with one level set
LUnit == 2000
LevelSets(A, dims) ==
    LET shapes == IF ShellSolid(A, dims)
                  THEN {<<la, ls, 1>> : la \in {0, 1}, ls \in {-1, 1}} \cup {<<1, 1, 4>>}
                  ELSE {<<1, 1, 1>>}
    IN  {[c \in Cells(dims) |->
            IF A[c] = FLUID THEN -(LUnit \div s[3])
            ELSE IF A[c] = AIR THEN s[1] * LUnit ELSE s[2] * LUnit] : s \in shapes}
Seeds == {<<1, 1, 1, 1>>, <<1, 2, 0, 1>>, <<0, 0, 0, 2>>}
FaceVelocities(seed, dims) ==
    [n \in Axes |-> [f \in Faces(n, dims) |->
        ((seed[1] * f[1] + seed[2] * f[2] + seed[3] * f[3] + seed[4] * n) % 3) - 1]]
ZeroFaces(dims) == [n \in Axes |-> [f \in Faces(n, dims) |-> 0]]
ZeroCells(dims) == [c \in Cells(dims) |-> 0]

(***************************************************************************)
(* The grid operations as actions, in the order step() calls them.         *)
(***************************************************************************)
InitSim ==
    /\ pc = "new" /\ dimensions = Zero3 /\ density = 0 /\ frame = 0
    /\ particles = << >> /\ pgrid = {} /\ cellA = << >> /\ scene = SceneBox
    /\ gridview = [pic |-> << >>, delta |-> Zero3] /\ trace = << >>
    /\ hist = [steps |-> 0, count0 |-> 0, emitted |-> FALSE, resampled |-> FALSE,
               save |-> FALSE, nextid |-> 1, emit0 |-> << >>, relocated |-> {},
               pre |-> << >>, before |-> << >>, since |-> -1]
InitGrid ==
    /\ InitSim
    /\ view = NoView
    /\ \E A \in GridTypes(GridDims), seed \in Seeds :
          \E L \in LevelSets(A, GridDims) :
              grid = [op |-> "input", dims |-> GridDims, A |-> A, L |-> L,
                      u |-> FaceVelocities(seed, GridDims),
                      prev |-> ZeroFaces(GridDims), P |-> ZeroCells(GridDims),
                      D |-> ZeroCells(GridDims), runs |-> 0,
                      u0 |-> ZeroFaces(GridDims), first |-> ZeroFaces(GridDims),
                      kept |-> FALSE, snap |-> ZeroFaces(GridDims), solved |-> FALSE]

\* line 111
GridStorePrevious ==
    /\ grid.op = "input"
    /\ grid' = [grid EXCEPT !.op = "storePreviousGrid", !.prev = StorePreviousGrid(grid.u),
                            !.kept = TRUE, !.snap = grid.u]
    /\ UNCHANGED <<simvars, view>>
\* lines 112 and 114
GridEnforceBoundary ==
    /\ grid.op \in {"storePreviousGrid", "project"}
    /\ grid' = [grid EXCEPT
                  !.op = IF grid.op = "project" THEN "enforce2" ELSE "enforce1",
                  !.u = EnforceBoundaryVelocity(grid.A, grid.dims, grid.u)]
    /\ UNCHANGED <<simvars, view>>
\* line 113: project(), lines 393-431: the divergence of every cell, the
\* solve, subtractPressureGradient
GridProject ==
    /\ grid.op = "enforce1"
    /\ \E P \in SolveChoices(grid.A, grid.L, grid.u, grid.dims) :
          grid' = [grid EXCEPT !.op = "project",
                               !.D = Divergence(grid.u, grid.dims),
                               !.P = P,
                               !.solved =
                                  \A c \in FluidCells(grid.A, grid.dims) :
                                     CorrectedSum(grid.A, grid.L, P, grid.u, c) = 0,
                               !.u = SubtractPressureGradient(grid.L, P, grid.u, grid.dims)]
    /\ UNCHANGED <<simvars, view>>
\* line 115, and extrapolateVelocity called again on its own result
GridExtrapolate ==
    /\ grid.op \in {"input", "enforce2", "extrapolateVelocity"}
    /\ grid.runs < 2
    /\ LET out == ExtrapolateVelocity(grid.A, grid.dims, grid.u)
       IN  grid' = [grid EXCEPT !.op = "extrapolateVelocity",
                                !.u = out,
                                !.runs = @ + 1,
                                !.u0 = IF grid.runs = 0 THEN grid.u ELSE @,
                                !.first = IF grid.runs = 0 THEN out ELSE @]
    /\ UNCHANGED <<simvars, view>>
\* line 116
GridSubtractPrevious ==
    /\ grid.op = "extrapolateVelocity"
    /\ grid' = [grid EXCEPT !.op = "subtractPreviousGrid",
                            !.prev = SubtractPreviousGrid(grid.u, grid.prev, grid.dims)]
    /\ UNCHANGED <<simvars, view>>

NextGrid ==
    \/ GridStorePrevious
    \/ GridEnforceBoundary
    \/ GridProject
    \/ GridExtrapolate
    \/ GridSubtractPrevious
SpecGrid == InitGrid /\ [][NextGrid]_vars

\* C6: for any cell types and any face velocities, running extrapolateVelocity
\* twice in a row leaves every face of u_x, u_y and u_z as the first run left it.
C6_ExtrapolateIdempotent ==
    (grid.op = "extrapolateVelocity" /\ grid.runs >= 2) => grid.u = grid.first
C6_Witness ==
    /\ grid.op = "extrapolateVelocity" /\ grid.runs = 2
    /\ grid.first # grid.u0
    /\ ~ShellSolid(grid.A, grid.dims)

\* C12: extrapolateVelocity changes a face of component n only if the face
\* does not touch a FLUID cell (valid false) and is not a wall face (SOLID or
\* nothing on both sides); such a face with at least one valid neighbour in
\* range becomes the mean of its valid neighbours; valid faces and wall faces
\* keep their velocity.
ValidNeighbours(n, f) ==
    {q \in NeighbourFaces(n, f, grid.dims) : Mark(grid.A, grid.dims, n, q)}
C12_ExtrapolateAirBand ==
    (grid.op = "extrapolateVelocity" /\ grid.runs = 1) =>
        \A n \in Axes : \A f \in Faces(n, grid.dims) :
            LET valid == Mark(grid.A, grid.dims, n, f)
                wall == WallMark(grid.A, grid.dims, n, f)
                qs == ValidNeighbours(n, f)
            IN  /\ grid.u[n][f] # grid.u0[n][f] => ~valid /\ ~wall
                /\ (~valid /\ ~wall /\ qs # {}) =>
                      grid.u[n][f] = RoundDiv(SumOver(qs, grid.u0[n]), Cardinality(qs))
                /\ (valid \/ wall) => grid.u[n][f] = grid.u0[n][f]

\* C14: after storePreviousGrid, mgrid_previous.u_x, u_y, u_z equal mgrid's at
\* every face of the staggered shapes; after the later subtractPreviousGrid
\* every face of mgrid_previous holds the current mgrid value minus the value
\* mgrid had at that face when storePreviousGrid ran; neither operation changes
\* a face of mgrid.
RunsGrid(op) == grid.op # op /\ grid'.op = op
C14_StoreAndSubtract ==
    [][/\ RunsGrid("storePreviousGrid") =>
            /\ \A n \in Axes : \A f \in Faces(n, grid.dims) :
                  grid'.prev[n][f] = grid.u[n][f]
            /\ grid'.u = grid.u
       /\ (RunsGrid("subtractPreviousGrid") /\ grid.kept) =>
            /\ \A n \in Axes : \A f \in Faces(n, grid.dims) :
                  grid'.prev[n][f] = grid.u[n][f] - grid.snap[n][f]
            /\ grid'.u = grid.u]_vars
C14_Witness ==
    /\ grid.op = "subtractPreviousGrid" /\ grid.kept
    /\ grid.u # grid.snap
    /\ grid.P # ZeroCells(grid.dims)
    /\ \E n \in Axes : \E f \in Faces(n, grid.dims) :
          grid.prev[n][f] # 0 /\ grid.snap[n][f] # 0 /\ grid.u[n][f] # grid.snap[n][f]
    /\ \E n \in Axes : \E f \in Faces(n, grid.dims) :
          grid.u[n][f] # 0 /\ grid.prev[n][f] # grid.u[n][f]

\* C15: in subtractPressureGradient with the sub-cell correction, on a face
\* whose two cells have level-set values of opposite sign, the divisor of the
\* ghost pressure is floored, at 1e-3 for the forward cell's ghost and at 1e-6
\* for the backward cell's: the ghost pressure is at most |L|/floor times the
\* liquid-side pressure in magnitude, however close to zero the liquid-side
\* level-set value is.
SignChange(L, n, f) == L[f] * L[Back(n, f)] < 0
C15_GhostBounded ==
    grid.op = "project" =>
        \A n \in Axes : \A f \in Faces(n, grid.dims) :
            (f[n] > 0 /\ f[n] < grid.dims[n] /\ SignChange(grid.L, n, f)) =>
                LET b == Back(n, f)
                IN  /\ grid.L[f] > 0 =>
                          Abs(PressureFront(grid.L, grid.P, n, f)) * FloorFront
                             <= Abs(grid.L[f]) * Abs(grid.P[b])
                    /\ grid.L[b] > 0 =>
                          Abs(PressureBack(grid.L, grid.P, n, f)) * FloorBack
                             <= Abs(grid.L[b]) * Abs(grid.P[f])

\* C9: after project() every FLUID cell that has no AIR cell next to it has a
\* discrete divergence of absolute value below 1e-3.
NextToAir(A, dims, c) ==
    \E a \in Axes, sgn \in {-1, 1} :
        LET d == VAdd(c, VScale(sgn, Unit(a)))
        IN  d \in Cells(dims) /\ A[d] = AIR
C9_DivergenceFree ==
    (grid.op = "project" /\ grid.solved) =>
        \A c \in FluidCells(grid.A, grid.dims) :
            ~NextToAir(grid.A, grid.dims, c) =>
                Abs(Divergence(grid.u, grid.dims)[c]) < 1

(***************************************************************************)
(* The grid phases as tbb::parallel_for runs them: the range of i is split  *)
(* among workers, every plane i is run by one worker, in program order      *)
(* inside the plane and in any order against the other planes.  The loops   *)
(* of one phase follow one another.  An entry of a grid is <<name, n, f>>.  *)
(* A step is one plane of a loop, or, in the sweep of extrapolateVelocity,  *)
(* one pass of the body of the k loop.                                      *)
(***************************************************************************)
PlaneN == 3
PlaneDims == <<PlaneN, 3, 3>>
PlanePhases ==
    {"storePreviousGrid", "subtractPreviousGrid", "divergence",
     "subtractPressureGradient", "extrapolateVelocity"}
\* the parallel_for loops of a phase: one per component, one for the cells of
\* project(), one for the sweep (lines 492-539)
Loops(phase) == IF phase \in {"divergence", "extrapolateVelocity"} THEN 1 ELSE 3
\* the blocked_range of loop l: (0,x+1) for the x faces and the sweep, (0,x)
\* otherwise
LoopPlanes(phase, l, dims) ==
    IF phase = "extrapolateVelocity" \/ (phase # "divergence" /\ l = 1)
    THEN 0 .. dims[1] ELSE 0 .. dims[1] - 1
PlaneFaces(n, i, dims) == {f \in Faces(n, dims) : f[1] = i}
\* the sweep at (i,j,k): the components it writes (lines 497-501 and 524)
SweepTargets(A, dims, i, jk) ==
    {n \in Axes :
        LET f == <<i, jk[1], jk[2]>>
        IN  /\ f \in Faces(n, dims)
            /\ Extrapolates(A, dims, n, f)
            /\ \E q \in NeighbourFaces(n, f, dims) : ReadsNeighbour(A, dims, n, q)}
RECURSIVE InOrder(_, _)
InOrder(S, w) ==
    IF S = {} THEN << >>
    ELSE LET m == CHOOSE a \in S : \A b \in S : a[1] * w + a[2] <= b[1] * w + b[2]
         IN  <<m>> \o InOrder(S \ {m}, w)
\* what a worker does in plane i of loop l, in program order
Work(g, l, i) ==
    IF i \notin LoopPlanes(g.op, l, g.dims) THEN << >>
    ELSE IF g.op # "extrapolateVelocity" THEN << <<0, 0>> >>
    ELSE InOrder({jk \in (0 .. g.dims[2]) \X (0 .. g.dims[3]) :
                     SweepTargets(g.A, g.dims, i, jk) # {}}, g.dims[3] + 1)
\* the entries one step reads and writes (the getCell and setCell calls)
Accesses(g, l, i, jk) ==
    LET faces == PlaneFaces(l, i, g.dims)
        inner == {f \in faces : f[l] > 0 /\ f[l] < g.dims[l]}
        cells == {c \in Cells(g.dims) : c[1] = i}
        ns == SweepTargets(g.A, g.dims, i, jk)
        at == <<i, jk[1], jk[2]>>
    IN  CASE g.op = "storePreviousGrid" ->
                [rd |-> {<<"u", l, f>> : f \in faces},
                 wr |-> {<<"prev", l, f>> : f \in faces}]
          [] g.op = "subtractPreviousGrid" ->
                [rd |-> {<<"u", l, f>> : f \in faces} \cup {<<"prev", l, f>> : f \in faces},
                 wr |-> {<<"prev", l, f>> : f \in faces}]
          [] g.op = "divergence" ->
                [rd |-> UNION {{<<"u", a, c>>, <<"u", a, VAdd(c, Unit(a))>>} :
                                  a \in Axes, c \in cells},
                 wr |-> {<<"D", 0, c>> : c \in cells}]
          [] g.op = "subtractPressureGradient" ->
                [rd |-> UNION {{<<"P", 0, f>>, <<"P", 0, Back(l, f)>>, <<"L", 0, f>>,
                                <<"L", 0, Back(l, f)>>, <<"u", l, f>>} : f \in inner},
                 wr |-> {<<"u", l, f>> : f \in inner}]
          [] OTHER ->
                [rd |-> UNION {{<<"u", n, q>> : q \in {r \in NeighbourFaces(n, at, g.dims) :
                                   ReadsNeighbour(g.A, g.dims, n, r)}} : n \in ns},
                 wr |-> {<<"u", n, at>> : n \in ns}]
\* the grids after one step, computed from the grids as they are now
Effect(g, l, i, jk) ==
    LET own(n, f) == f[1] = i /\ n = l
    IN  CASE g.op = "storePreviousGrid" ->
                [g EXCEPT !.prev = [n \in Axes |-> [f \in Faces(n, g.dims) |->
                    IF own(n, f) THEN StorePreviousGrid(g.u)[n][f] ELSE g.prev[n][f]]]]
          [] g.op = "subtractPreviousGrid" ->
                [g EXCEPT !.prev = [n \in Axes |-> [f \in Faces(n, g.dims) |->
                    IF own(n, f) THEN SubtractPreviousGrid(g.u, g.prev, g.dims)[n][f]
                    ELSE g.prev[n][f]]]]
          [] g.op = "divergence" ->
                [g EXCEPT !.D = [c \in Cells(g.dims) |->
                    IF c[1] = i THEN Divergence(g.u, g.dims)[c] ELSE g.D[c]]]
          [] g.op = "subtractPressureGradient" ->
                [g EXCEPT !.u = [n \in Axes |-> [f \in Faces(n, g.dims) |->
                    IF own(n, f) THEN SubtractPressureGradient(g.L, g.P, g.u, g.dims)[n][f]
                    ELSE g.u[n][f]]]]
          [] OTHER ->
                [g EXCEPT !.u = [n \in Axes |-> [f \in Faces(n, g.dims) |->
                    IF f = <<i, jk[1], jk[2]>> /\ n \in SweepTargets(g.A, g.dims, i, jk)
                    THEN ExtrapolatedValue(g.A, g.dims, g.u, n, f) ELSE g.u[n][f]]]]
\* the phase run by one worker, plane after plane
Sequential(g) ==
    CASE g.op = "storePreviousGrid" -> [g EXCEPT !.prev = StorePreviousGrid(g.u)]
      [] g.op = "subtractPreviousGrid" ->
            [g EXCEPT !.prev = SubtractPreviousGrid(g.u, g.prev, g.dims)]
      [] g.op = "divergence" -> [g EXCEPT !.D = Divergence(g.u, g.dims)]
      [] g.op = "subtractPressureGradient" ->
            [g EXCEPT !.u = SubtractPressureGradient(g.L, g.P, g.u, g.dims)]
      [] OTHER -> [g EXCEPT !.u = ExtrapolateVelocity(g.A, g.dims, g.u)]

InitPlanes ==
    /\ InitSim
    /\ view = NoView
    /\ \E phase \in PlanePhases, A \in GridTypes(PlaneDims) :
          \E L \in (IF phase = "subtractPressureGradient" THEN LevelSets(A, PlaneDims)
                    ELSE {ZeroCells(PlaneDims)}) :
              LET g == [op |-> phase, dims |-> PlaneDims, A |-> A, L |-> L,
                        u |-> FaceVelocities(<<1, 1, 1, 1>>, PlaneDims),
                        prev |-> FaceVelocities(<<0, 1, 1, 2>>, PlaneDims),
                        P |-> [c \in Cells(PlaneDims) |-> IF A[c] = FLUID THEN c[1] ELSE 0],
                        D |-> ZeroCells(PlaneDims)]
              IN  grid = [g |-> g, start |-> g, loop |-> 1,
                          at |-> [i \in 0 .. PlaneDims[1] |-> 0],
                          rd |-> [i \in 0 .. PlaneDims[1] |-> {}],
                          wr |-> [i \in 0 .. PlaneDims[1] |-> {}]]
\* the worker that owns plane i runs the next step of the plane
PlaneStep ==
    \E i \in DOMAIN grid.at :
        LET work == Work(grid.g, grid.loop, i)
        IN  /\ grid.at[i] < Len(work)
            /\ LET jk == work[grid.at[i] + 1]
                   acc == Accesses(grid.g, grid.loop, i, jk)
               IN  grid' = [grid EXCEPT !.g = Effect(grid.g, grid.loop, i, jk),
                                        !.at[i] = @ + 1,
                                        !.rd[i] = @ \cup acc.rd,
                                        !.wr[i] = @ \cup acc.wr]
            /\ UNCHANGED <<simvars, view>>
LoopDone == \A i \in DOMAIN grid.at : grid.at[i] = Len(Work(grid.g, grid.loop, i))
\* parallel_for returns when every plane is done; the next loop starts
NextLoop ==
    /\ LoopDone
    /\ grid.loop < Loops(grid.g.op)
    /\ grid' = [grid EXCEPT !.loop = @ + 1,
                            !.at = [i \in DOMAIN grid.at |-> 0],
                            !.rd = [i \in DOMAIN grid.at |-> {}],
                            !.wr = [i \in DOMAIN grid.at |-> {}]]
    /\ UNCHANGED <<simvars, view>>
NextPlanes == PlaneStep \/ NextLoop
SpecPlanes == InitPlanes /\ [][NextPlanes]_vars

\* C16: in the grid phases run in parallel over the planes i, no entry written
\* by one worker is read or written by another worker in the same loop, so the
\* grids a phase leaves are those of a sequential run whatever the interleaving;
\* in the sweep of extrapolateVelocity every face read is a valid face and no
\* valid face is written.
C16_PlanesIndependent ==
    /\ \A i \in DOMAIN grid.at : \A j \in DOMAIN grid.at :
          i # j => grid.wr[i] \cap (grid.rd[j] \cup grid.wr[j]) = {}
    /\ (LoopDone /\ grid.loop = Loops(grid.g.op)) => grid.g = Sequential(grid.start)
    /\ grid.g.op = "extrapolateVelocity" =>
          \A i \in DOMAIN grid.at :
              /\ \A e \in grid.rd[i] : Mark(grid.g.A, grid.g.dims, e[2], e[3])
              /\ \A e \in grid.wr[i] : ~Mark(grid.g.A, grid.g.dims, e[2], e[3])
C16_Witness ==
    /\ grid.g.op = "extrapolateVelocity" /\ LoopDone
    /\ grid.g.u # grid.start.u
    /\ \E i \in DOMAIN grid.at : \E j \in DOMAIN grid.at :
          /\ i # j /\ grid.wr[i] # {} /\ grid.wr[j] # {}
          /\ \E e \in grid.rd[i] : e[3][1] = j

(***************************************************************************)
(* viewer (src/src/viewer/viewer.cpp): launch(), its parallel region with  *)
(* the draw loop in the master thread and the simulation in the single     *)
(* block, and the window the user closes.                                  *)
(***************************************************************************)
FrameWrap == 4
Threads == {"master", "worker"}
\* viewer::viewer(): loaded is the only member the constructor sets; load()
\* assigns a local frame, so the member frame holds whatever the memory held.
\* History fields: unsetReads, the functions that have called
\* particles->size() while particles was not assigned; asked, the value of
\* loaded when the last launch() was entered; result, what the last launch()
\* returned ("none" while none has returned since it was entered)
NewViewer(f, si) ==
    [loaded |-> FALSE, frame |-> f, siminitialized |-> si, particles |-> "unset",
     sim |-> "fresh", window |-> "none", gl |-> "none", team |-> 0,
     th |-> [t \in Threads |-> "out"], singleBy |-> "none", vbo |-> "none",
     called |-> FALSE, asked |-> FALSE, result |-> "none", proc |-> "running",
     unsetReads |-> {}]
InitViewer ==
    /\ InitSim
    /\ grid = NoGrid
    /\ \E f \in 0 .. FrameWrap - 1, si \in BOOLEAN : view = NewViewer(f, si)

Running == view.proc = "running"
\* the caller is not inside launch(): it was never called, or it has returned
Outside == ~view.called \/ view.result # "none"
\* viewer::load(sim), lines 20-40; it may be called again
ViewerLoad ==
    /\ Running /\ Outside
    /\ view' = [view EXCEPT !.loaded = TRUE, !.siminitialized = FALSE]
    /\ UNCHANGED <<simvars, grid>>
\* the ways out of viewer::init(), lines 220-266: glfwInit fails (227-229),
\* glfwCreateWindow fails and GLFW is terminated (231-235), glewInit fails with
\* the window left open (236-241), or init() goes on to line 256
InitExits == {"glfwInit", "createWindow", "glewInit", "ok"}
\* viewer::launch(), lines 43-46 and 70-77, with init(); launch() may be called
\* again once it has returned.  The read of particles->size() at line 256 is
\* of a pointer nothing has set
ViewerLaunch ==
    /\ Running /\ Outside
    /\ \E exit \in InitExits, crash \in BOOLEAN, n \in 1 .. 2 :
          LET v == [view EXCEPT !.called = TRUE, !.asked = view.loaded]
          IN  view' =
                IF ~view.loaded
                THEN [v EXCEPT !.result = "false"]
                ELSE IF exit = "glfwInit"
                THEN [v EXCEPT !.gl = "failed", !.result = "false"]
                ELSE IF exit = "createWindow"
                THEN [v EXCEPT !.gl = "failed", !.window = "none", !.result = "false"]
                ELSE IF exit = "glewInit"
                THEN [v EXCEPT !.gl = "failed", !.window = "open", !.result = "false"]
                ELSE IF view.particles = "unset" /\ crash
                THEN [v EXCEPT !.gl = "ok", !.window = "open", !.result = "none",
                               !.proc = "crashed", !.unsetReads = @ \cup {"init"}]
                ELSE [v EXCEPT !.gl = "ok", !.window = "open", !.result = "none",
                               !.vbo = "empty", !.team = n,
                               !.unsetReads = @ \cup {"init"},
                               !.th = [t \in Threads |->
                                         IF t = "master" THEN "mainLoop"
                                         ELSE IF n = 2 THEN "arrive" ELSE "out"]]
    /\ UNCHANGED <<simvars, grid>>
\* viewer::mainLoop(), lines 123-211: one pass of the draw loop; with
\* siminitialized set it reads particles->size(), set or not
MasterFrame ==
    /\ Running /\ view.th["master"] = "mainLoop" /\ view.window = "open"
    /\ \E crash \in BOOLEAN :
          view' =
            IF ~view.siminitialized THEN view
            ELSE IF view.particles = "unset" /\ crash
            THEN [view EXCEPT !.proc = "crashed", !.unsetReads = @ \cup {"mainLoop"}]
            ELSE IF view.particles = "unset"
            THEN [view EXCEPT !.vbo = "fluid", !.unsetReads = @ \cup {"mainLoop"}]
            ELSE [view EXCEPT !.vbo = "fluid"]
    /\ UNCHANGED <<simvars, grid>>
\* the user closes the window: glfwPollEvents (line 202) delivers the event and
\* glfwWindowShouldClose becomes true
UserCloses ==
    /\ Running /\ view.th["master"] = "mainLoop" /\ view.window = "open"
    /\ view' = [view EXCEPT !.window = "closed"]
    /\ UNCHANGED <<simvars, grid>>
\* viewer::keyCallback, lines 287-292, called from glfwPollEvents: ESC closes
\* the window and exits
UserEscape ==
    /\ Running /\ view.th["master"] = "mainLoop" /\ view.window = "open"
    /\ view' = [view EXCEPT !.window = "closed", !.proc = "exited"]
    /\ UNCHANGED <<simvars, grid>>
\* viewer::mainLoop(), lines 123 and 212-213: the loop ends, and the master
\* reaches the single construct
MasterExit ==
    /\ Running /\ view.th["master"] = "mainLoop" /\ view.window = "closed"
    /\ view' = [view EXCEPT !.th["master"] = "arrive"]
    /\ UNCHANGED <<simvars, grid>>
\* launch(), line 55: the first thread to arrive runs the single block, any
\* other waits at its barrier
TakeSingle(t) ==
    /\ Running /\ view.th[t] = "arrive"
    /\ view' = IF view.singleBy = "none"
               THEN [view EXCEPT !.th[t] = "single", !.singleBy = t]
               ELSE [view EXCEPT !.th[t] = "barrier"]
    /\ UNCHANGED <<simvars, grid>>
\* launch(), lines 57-60.  The store of line 59 races with the read of line
\* 125 and is followed by a loop that never ends and does nothing a thread may
\* wait for: a build may make the store (stored) or leave it out
SingleStart(t) ==
    /\ Running /\ view.th[t] = "single"
    /\ \E stored \in BOOLEAN :
          view' = IF view.frame = 0
                  THEN [view EXCEPT !.th[t] = "loop", !.sim = "initialized",
                                    !.siminitialized = IF stored THEN TRUE ELSE @]
                  ELSE [view EXCEPT !.th[t] = "loop"]
    /\ UNCHANGED <<simvars, grid>>
\* launch(), lines 61-65: one pass of while(1); the int frame is kept modulo
\* FrameWrap.  The stores of the loop race with mainLoop's reads in the same
\* way: a pass makes them, or none of them
SingleLoop(t) ==
    /\ Running /\ view.th[t] = "loop"
    /\ \E stored \in BOOLEAN :
          view' = IF stored
                  THEN [view EXCEPT !.particles = "set", !.frame = (@ + 1) % FrameWrap]
                  ELSE view
    /\ UNCHANGED <<simvars, grid>>
Arrive == \E t \in Threads : TakeSingle(t)
Single == \E t \in Threads : SingleStart(t) \/ SingleLoop(t)

NextViewer ==
    \/ ViewerLoad
    \/ ViewerLaunch
    \/ MasterFrame
    \/ UserCloses
    \/ UserEscape
    \/ MasterExit
    \/ Arrive
    \/ Single
SpecViewer == InitViewer /\ [][NextViewer]_vars
\* the threads of the team keep running: the master draws and leaves its loop,
\* every thread reaches the single construct and its taker enters the block.
\* A thread in while(1) runs too, but need never make a store.  The user owes
\* nothing
FairViewer ==
    /\ SpecViewer
    /\ WF_vars(MasterFrame) /\ WF_vars(MasterExit) /\ WF_vars(Arrive)
    /\ WF_vars(\E t \in Threads : SingleStart(t))

\* C10: launch() returns true if the viewer launches and its window is later
\* closed, and false otherwise (nothing loaded, or GL initialization failed);
\* once the window is closed, launch() eventually returns.  The window here is
\* closed by its close button, the process still running.
C10_LaunchReturns ==
    /\ [](view.result = "false" => (~view.asked \/ view.gl = "failed"))
    /\ (view.window = "closed" /\ Running) ~> (view.result = "true")

\* C17: the particle-list pointer is never dereferenced before it has been
\* assigned from sim->getParticles(): whenever mainLoop sees siminitialized
\* true and reads particles the assignment has happened, under every
\* interleaving of the render thread and the simulation thread, and init() does
\* not read particles before launch() starts the simulation thread.
C17_ParticlesAssignedBeforeRead ==
    /\ "mainLoop" \notin view.unsetReads
    /\ "init" \notin view.unsetReads

====
